---- MODULE Spec2Model ----
(***************************************************************************)
(* Topic mapping of exam questions onto a syllabus                          *)
(* (src/analytics/topic_mapper.py).                                         *)
(*                                                                          *)
(* Numbers.  The code computes with floats; the model uses fixed point.     *)
(*   - cosine similarities (np.dot of unit vectors) are integers in units   *)
(*     of 1/ScoreUnit, so 0.05 is 5000 and 0.20 is 20000;                   *)
(*   - the weights 0.5, 0.4, 0.1 are integers in units of 1/WeightUnit;     *)
(*   - a confidence, round(final_score, 4), is an integer in units of       *)
(*     1/ConfUnit, so 0.03 is 300 and 0.30 is 3000;                         *)
(*   - the unrounded final_score is the exact fraction Num/Den;             *)
(*   - marks and allocated_marks are integers in units of 1/MarksUnit.      *)
(* The Embedding Oracle and rapidfuzz are external: the similarities and    *)
(* the fuzzy ratios of a call are inputs drawn from small sets.             *)
(***************************************************************************)
EXTENDS Integers, Sequences, FiniteSets, TLC

VARIABLES
    selected_modules,    \* argument of map_questions_to_topics / the selectors' constructors
    questions,           \* argument of map_questions_to_topics
    pc,                  \* "idle", "start", "loop", "returned", "raised"
    module_ids,          \* ModuleSelector.module_ids
    topic_metadata,      \* TopicSelector.topic_metadata
    topic_token_sets,    \* TopicSelector.topic_token_sets
    enriched_questions,  \* the list map_questions_to_topics builds and returns
    q_scores,            \* what the oracle and rapidfuzz gave for the question mapped last
    call,                \* the last direct call of a selector: arguments and result
    encode_calls,        \* number of calls of EmbeddingEngine.encode made by the run
    mapped_results,      \* argument of compute_canonical_questions
    dist,                \* cosine distance of the oracle's vectors of two question texts
    canon_pc,            \* "idle", "start", "topics", "returned"
    topic_questions,     \* compute_canonical_questions: the dict of lines 72-84
    topic_clusters,      \* what cluster_questions_within_topic returned, per topic clustered
    canonical_output,    \* compute_canonical_questions: the dict of lines 89-119
    canonical_file,      \* content of canonical_questions_<course>.json, NoFile before line 128
    jobs,                \* job_manager.jobs, the job ids being 1, 2, ...
    thread_pc,           \* per job, where its background thread stands
    written,             \* per job, the stages whose result file its thread has written
    engines,             \* per job, the model held by each EmbeddingEngine its thread built
    model_instance,      \* embedding_engine._model_instance, 0 for None
    model_loads,         \* number of SentenceTransformer(EMBEDDING_MODEL) constructions
    CURRENT_SYLLABUS_PATH, \* main.py global: 0 for None, else the number of the upload
    CURRENT_COURSE_CODE, \* main.py global: 0 for None, else the number of the upload
    polled,              \* the last response of GET /job-status, NoPoll before any
    started_with,        \* per job, the two globals when /run-analysis was called for it
    stale,               \* per job, whether its thread has read a global that had changed
    cleared,             \* per job, whether /cleanup emptied the directories under its thread
    arg,                 \* arguments of a direct call of a function
    ret                  \* what the call returned, NoReturn before it has

mapperVars == <<selected_modules, questions, pc, module_ids, topic_metadata,
                topic_token_sets, enriched_questions, q_scores, call, encode_calls>>

canonicalVars == <<mapped_results, dist, canon_pc, topic_questions, topic_clusters,
                   canonical_output, canonical_file>>

serverVars == <<CURRENT_SYLLABUS_PATH, CURRENT_COURSE_CODE, polled, started_with, stale,
                cleared>>

jobVars == <<jobs, thread_pc, written, engines, model_instance, model_loads, serverVars>>

callVars == <<arg, ret>>

vars == <<mapperVars, canonicalVars, jobVars, callVars>>

----------------------------------------------------------------------------
(* Bounds of the model *)

MaxModules == 2
MaxPipelineTopics == 2
MaxSelectorTopics == 5
MaxQuestions == 2

----------------------------------------------------------------------------
(* Units of the fixed-point numbers *)

ScoreUnit == 10^5
ConfUnit == 10^4

(* Program constants *)

SEMANTIC_WEIGHT == 5
CONCEPT_WEIGHT == 4
FUZZY_WEIGHT == 1

\* the weights add up to 1.0
WeightUnit == SEMANTIC_WEIGHT + CONCEPT_WEIGHT + FUZZY_WEIGHT

MODULE_MARGIN == 5000
TOPIC_MARGIN == 300
MIN_SEMANTIC_FLOOR == 20000
MAX_TOPICS_PER_QUESTION == 4
FALLBACK_CONFIDENCE == 3000
FALLBACK_TOPIC == "Module-Level Fallback"

RECURSIVE Factorial(_)
Factorial(n) == IF n <= 1 THEN 1 ELSE n * Factorial(n - 1)

\* every split marks / n with n <= MAX_TOPICS_PER_QUESTION is a whole number of units
MarksUnit == Factorial(MAX_TOPICS_PER_QUESTION)

----------------------------------------------------------------------------
(* Inputs *)

Range(s) == {s[i] : i \in DOMAIN s}

RECURSIVE SumSeq(_)
SumSeq(s) == IF s = <<>> THEN 0 ELSE Head(s) + SumSeq(Tail(s))

\* main topic names of module m, by position
ModuleTopicNames ==
    << <<"m1 half adder", "m1 AI", "m1 full adder", "m1 ML", "m1 mux", "m1 OS", "m1 latch", "m1 IO">>,
       <<"m2 flip flop", "m2 DB", "m2 counter", "m2 VM", "m2 register", "m2 IP", "m2 shifter", "m2 CN">>,
       <<"m3 page table", "m3 PC", "m3 cache line", "m3 IR", "m3 pipeline", "m3 SP", "m3 hazard", "m3 BP">>,
       <<"m4 binary tree", "m4 DS", "m4 hash table", "m4 LL", "m4 heap sort", "m4 BT", "m4 graph", "m4 DP">> >>

\* tokenize(topic_text) of the k-th topic of a module: a topic whose words all
\* have at most 2 characters ("AI") has no tokens
TopicTokens(m, k) == IF k % 2 = 0 THEN {} ELSE {"adder", "circuit"}

Topic(m, k) == [main_topic |-> ModuleTopicNames[m][k], tokens |-> TopicTokens(m, k)]

Module(m, cnt) ==
    [module_id |-> m, main_topics |-> [k \in 1..cnt |-> Topic(m, k)]]

\* module lists: modules 1..n in syllabus order, each with at least one main
\* topic (get_or_create_enriched_syllabus skips modules without topics), at
\* most maxT main topics in all; n = 0 is a module range matching no module
Syllabi(maxM, maxT) ==
    UNION {
        {[m \in 1..n |-> Module(m, cnts[m])] :
            cnts \in {c \in [1..n -> 1..maxT] : SumSeq(c) <= maxT}}
        : n \in 0..maxM }

\* tokenize(expanded_text) of the k-th question
QuestionTokens(k) == IF k % 2 = 1 THEN {"adder"} ELSE {}

\* marks of the k-th question, in marks: 10, 7, 10, ...
QuestionMarks(k) == IF k % 2 = 1 THEN 10 ELSE 7

Question(k) ==
    [paper_name |-> "p1.json", question_number |-> k, text |-> k,
     tokens |-> QuestionTokens(k), marks |-> QuestionMarks(k) * MarksUnit]

\* the questions load_questions returns: any number of them up to the bound
QuestionLists == {[k \in 1..n |-> Question(k)] : n \in 0..MaxQuestions}

\* similarities of a question to a module
ModuleScores == {44999, 45000, 50000}

\* <<semantic similarity, token_set_ratio>> of a question and a topic
TopicScores == {<<19999, 100>>, <<20000, 30>>, <<32002, 0>>, <<32008, 0>>}
PipelineTopicScores == {<<19999, 100>>, <<20000, 30>>}

\* tokenize(question_text) of a direct call of select_topics
QuestionTokenSets == {{}, {"adder"}}

----------------------------------------------------------------------------
(* ModuleSelector: topic_mapper.py 81-121 *)

\* np.max(similarities)
np_max(similarities) ==
    CHOOSE x \in Range(similarities) : \A y \in Range(similarities) : y <= x

in_module_margin_strict(score, top_score) == score > top_score - MODULE_MARGIN

\* the comparison of line 118
in_module_margin(score, top_score) == score >= top_score - MODULE_MARGIN

module_top_score_first(similarities) == similarities[1]

\* top_score of line 113
module_top_score(similarities) == np_max(similarities)

\* select_modules: the list of (module_id, score), in the order of module_ids
select_modules(ids, similarities) ==
    LET top_score == module_top_score(similarities)
        RECURSIVE Build(_)
        Build(i) ==
            IF i = 0 THEN <<>>
            ELSE IF in_module_margin(similarities[i], top_score)
                 THEN Append(Build(i - 1), <<ids[i], similarities[i]>>)
                 ELSE Build(i - 1)
    IN  Build(Len(similarities))

\* ModuleSelector.__init__: module_ids
ModuleSelector_ids(modules) == [i \in 1..Len(modules) |-> modules[i].module_id]

----------------------------------------------------------------------------
(* TopicSelector: topic_mapper.py 128-224 *)

RECURSIVE Flatten(_)
Flatten(ss) == IF ss = <<>> THEN <<>> ELSE Head(ss) \o Flatten(Tail(ss))

\* TopicSelector.__init__: topic_metadata, one entry per main topic, modules in order
TopicSelector_metadata(modules) ==
    Flatten([i \in 1..Len(modules) |->
        [k \in 1..Len(modules[i].main_topics) |->
            [module_id |-> modules[i].module_id,
             topic |-> modules[i].main_topics[k].main_topic]]])

\* TopicSelector.__init__: topic_token_sets
TopicSelector_token_sets(modules) ==
    Flatten([i \in 1..Len(modules) |->
        [k \in 1..Len(modules[i].main_topics) |-> modules[i].main_topics[k].tokens]])

topic_qualifies_any_module(module_id, semantic_score, allowed_modules) ==
    semantic_score >= MIN_SEMANTIC_FLOOR

\* the two `continue`s of lines 177-181, negated
topic_qualifies(module_id, semantic_score, allowed_modules) ==
    /\ module_id \in allowed_modules
    /\ semantic_score >= MIN_SEMANTIC_FLOOR

\* final_score of lines 185-200 as the exact fraction <<Num, Den>>, in units of
\* 1 / (ScoreUnit * WeightUnit); fuzzy is token_set_ratio, 0..100
final_score(semantic_score, topic_tokens, question_tokens, fuzzy) ==
    LET n == Cardinality(topic_tokens)
        overlap == Cardinality(topic_tokens \cap question_tokens)
        rest == SEMANTIC_WEIGHT * semantic_score + FUZZY_WEIGHT * fuzzy * (ScoreUnit \div 100)
    IN  IF n = 0 THEN <<rest, 1>>
        ELSE <<n * rest + CONCEPT_WEIGHT * ScoreUnit * overlap, n>>

\* round(a / b) to the nearest integer, ties to even, as Python's round
RoundHalfEven(a, b) ==
    LET q == a \div b
        r == a % b
    IN  IF 2 * r > b THEN q + 1
        ELSE IF 2 * r < b THEN q
        ELSE IF q % 2 = 0 THEN q ELSE q + 1

\* round(float(final_score), 4), in units of 1 / ConfUnit
confidence_of(fs) == RoundHalfEven(fs[1], fs[2] * ((ScoreUnit * WeightUnit) \div ConfUnit))

\* scored_topics of lines 171-206, in the order of topic_metadata
scored_topics(meta, token_sets, similarities, fuzzy, question_tokens, allowed_modules) ==
    LET RECURSIVE Build(_)
        Build(i) ==
            IF i = 0 THEN <<>>
            ELSE IF topic_qualifies(meta[i].module_id, similarities[i], allowed_modules)
                 THEN Append(Build(i - 1),
                        [module_id |-> meta[i].module_id,
                         topic |-> meta[i].topic,
                         confidence |-> confidence_of(
                             final_score(similarities[i], token_sets[i],
                                         question_tokens, fuzzy[i]))])
                 ELSE Build(i - 1)
    IN  Build(Len(meta))

\* sorted(..., key=confidence, reverse=True): stable, equal keys keep their order
RECURSIVE sorted_by_confidence(_)
sorted_by_confidence(s) ==
    IF s = <<>> THEN <<>>
    ELSE LET rest == sorted_by_confidence(SubSeq(s, 1, Len(s) - 1))
             x == s[Len(s)]
             \* x goes after every element whose confidence is >= its own
             ahead == SelectSeq(rest, LAMBDA e : e.confidence >= x.confidence)
             behind == SelectSeq(rest, LAMBDA e : e.confidence < x.confidence)
         IN  ahead \o <<x>> \o behind

\* the list comprehension of lines 219-222
margin_band(sorted) ==
    LET top_score == sorted[1].confidence
    IN  SelectSeq(sorted, LAMBDA t : t.confidence >= top_score - TOPIC_MARGIN)

truncate_one_more(selected) ==
    SubSeq(selected, 1, IF Len(selected) < MAX_TOPICS_PER_QUESTION + 1
                        THEN Len(selected) ELSE MAX_TOPICS_PER_QUESTION + 1)

\* selected[:MAX_TOPICS_PER_QUESTION]
truncate(selected) ==
    SubSeq(selected, 1, IF Len(selected) < MAX_TOPICS_PER_QUESTION
                        THEN Len(selected) ELSE MAX_TOPICS_PER_QUESTION)

\* a topic without lexical overlap is dropped before scoring
select_topics_overlap_required(meta, token_sets, similarities, fuzzy, question_tokens, allowed_modules) ==
    LET masked == [i \in DOMAIN similarities |->
                      IF token_sets[i] \cap question_tokens = {} THEN 0
                      ELSE similarities[i]]
        scored == scored_topics(meta, token_sets, masked, fuzzy,
                                question_tokens, allowed_modules)
    IN  IF scored = <<>> THEN <<>>
        ELSE truncate(margin_band(sorted_by_confidence(scored)))

\* select_topics, lines 165-224
select_topics(meta, token_sets, similarities, fuzzy, question_tokens, allowed_modules) ==
    LET scored == scored_topics(meta, token_sets, similarities, fuzzy,
                                question_tokens, allowed_modules)
    IN  IF scored = <<>> THEN <<>>
        ELSE truncate(margin_band(sorted_by_confidence(scored)))

----------------------------------------------------------------------------
(* map_questions_to_topics: topic_mapper.py 231-303 *)

fallback_every_module(selected_topics, selected_modules_scored) ==
    IF selected_topics = <<>> /\ selected_modules_scored # <<>>
    THEN [i \in 1..Len(selected_modules_scored) |->
             [module_id |-> selected_modules_scored[i][1],
              topic |-> FALLBACK_TOPIC,
              confidence |-> FALLBACK_CONFIDENCE]]
    ELSE selected_topics

\* lines 276-285: the Module-Level Fallback
fallback(selected_topics, selected_modules_scored) ==
    IF selected_topics = <<>> /\ selected_modules_scored # <<>>
    THEN LET top_module == selected_modules_scored[1][1]
         IN  << [module_id |-> top_module,
                 topic |-> FALLBACK_TOPIC,
                 confidence |-> FALLBACK_CONFIDENCE] >>
    ELSE selected_topics

\* floor division of whole marks, Python's //
split_marks_floor(marks, n) == ((marks \div MarksUnit) \div n) * MarksUnit

\* q["marks"] / len(selected_topics), a true division
split_marks(marks, n) == marks \div n

\* lines 287-291
allocate_marks(marks, selected_topics) ==
    [i \in 1..Len(selected_topics) |->
        [module_id |-> selected_topics[i].module_id,
         topic |-> selected_topics[i].topic,
         confidence |-> selected_topics[i].confidence,
         allocated_marks |-> split_marks(marks, Len(selected_topics))]]

\* the fallback step of lines 276-285 is missing
map_question_no_fallback(q, ids, meta, token_sets, similarities, topic_similarities, fuzzy) ==
    LET selected_modules_scored == select_modules(ids, similarities)
        allowed_module_ids == {selected_modules_scored[i][1] :
                                  i \in 1..Len(selected_modules_scored)}
        selected_topics == select_topics(meta, token_sets, topic_similarities, fuzzy,
                                         q.tokens, allowed_module_ids)
    IN  [paper_name |-> q.paper_name,
         question_number |-> q.question_number,
         text |-> q.text,
         marks |-> q.marks,
         mapped_topics |-> allocate_marks(q.marks, selected_topics)]

\* one iteration of the loop of lines 256-299, for the similarities and fuzzy
\* ratios the oracle and rapidfuzz give for q
map_question(q, ids, meta, token_sets, similarities, topic_similarities, fuzzy) ==
    LET selected_modules_scored == select_modules(ids, similarities)
        allowed_module_ids == {selected_modules_scored[i][1] :
                                  i \in 1..Len(selected_modules_scored)}
        selected_topics == select_topics(meta, token_sets, topic_similarities, fuzzy,
                                         q.tokens, allowed_module_ids)
    IN  [paper_name |-> q.paper_name,
         question_number |-> q.question_number,
         text |-> q.text,
         marks |-> q.marks,
         mapped_topics |-> allocate_marks(q.marks,
                               fallback(selected_topics, selected_modules_scored))]

----------------------------------------------------------------------------
(* canonical_engine.py: inputs *)

MaxCanonicalQuestions == 3

\* cosine distances in units of 1e-2
DistUnit == 10^2

SIMILARITY_THRESHOLD == 45
DISTANCE_THRESHOLD == DistUnit - SIMILARITY_THRESHOLD

\* a string is the sequence of its code points: "a", "b", "1", "2", "10"
PaperNames == << <<98>>, <<97>>, <<97>>, <<97>>, <<98>>, <<98>> >>
QuestionNumbers == << <<50>>, <<49, 48>>, <<50>>, <<49>>, <<49, 48>>, <<49>> >>

\* the k-th question of the cleaned papers; no two share paper and number
CanonicalQuestion(k) ==
    [paper_name |-> PaperNames[((k - 1) % Len(PaperNames)) + 1],
     question_number |-> QuestionNumbers[((k - 1) % Len(QuestionNumbers)) + 1],
     text |-> k,
     marks |-> QuestionMarks(k) * MarksUnit]

\* what map_questions_to_topics selected for a question: one topic, two topics
\* of two modules, or the Module-Level Fallback
SelectedTopicLists ==
    LET t1 == [module_id |-> 1, topic |-> ModuleTopicNames[1][1], confidence |-> 8000]
        t2 == [module_id |-> 2, topic |-> ModuleTopicNames[2][1], confidence |-> 8000]
    IN  { <<t1>>, <<t1, t2>>, fallback(<<>>, << <<1, 50000>> >>) }

\* a Mapped Question as map_questions_to_topics builds it (lines 293-299)
MappedQuestion(k, selected_topics) ==
    LET q == CanonicalQuestion(k)
    IN  [paper_name |-> q.paper_name,
         question_number |-> q.question_number,
         text |-> q.text,
         marks |-> q.marks,
         mapped_topics |-> allocate_marks(q.marks, selected_topics)]

MappedResultLists ==
    UNION { {[k \in 1..n |-> MappedQuestion(k, sel[k])] :
                sel \in [1..n -> SelectedTopicLists]}
            : n \in 0..MaxCanonicalQuestions }

\* distances of two different texts: 0.50, below the threshold; 0.55, the
\* threshold; 0.56, above it
DistValues == {50, DISTANCE_THRESHOLD, DISTANCE_THRESHOLD + 1}

TextPairs(n) == {p \in (1..n) \X (1..n) : p[1] < p[2]}

\* pairwise_distances(metric="cosine") of the oracle's vectors of texts a and b
Distance(d, a, b) ==
    IF a = b THEN 0 ELSE IF a < b THEN d[<<a, b>>] ELSE d[<<b, a>>]

----------------------------------------------------------------------------
(* canonical_engine.py: strings *)

\* Python's order of two strings: by code point, a proper prefix first
RECURSIVE StrLE(_, _)
StrLE(a, b) ==
    IF a = <<>> THEN TRUE
    ELSE IF b = <<>> THEN FALSE
    ELSE IF Head(a) # Head(b) THEN Head(a) < Head(b)
    ELSE StrLE(Tail(a), Tail(b))

\* f"{paper_name} - {question_number}" (lines 106-109)
format_reference(q) == q.paper_name \o <<32, 45, 32>> \o q.question_number

\* sorted(references): a stable insertion into ascending order
RECURSIVE sorted_strings(_)
sorted_strings(s) ==
    IF s = <<>> THEN <<>>
    ELSE LET rest == sorted_strings(SubSeq(s, 1, Len(s) - 1))
             x == s[Len(s)]
             ahead == SelectSeq(rest, LAMBDA e : StrLE(e, x))
             behind == SelectSeq(rest, LAMBDA e : ~StrLE(e, x))
         IN  ahead \o <<x>> \o behind

----------------------------------------------------------------------------
(* canonical_engine.py: cluster_questions_within_topic, find_medoid *)

\* sum of the distances of the index pairs of S
RECURSIVE SumPairs(_, _)
SumPairs(dm, S) ==
    IF S = {} THEN 0
    ELSE LET p == CHOOSE y \in S : TRUE
         IN  dm[p[1]][p[2]] + SumPairs(dm, S \ {p})

\* average linkage of two clusters A and B of indices, as the fraction
\* <<sum of the pairwise distances, number of pairs>>
Linkage(dm, A, B) == << SumPairs(dm, A \X B), Cardinality(A) * Cardinality(B) >>

FracLT(x, y) == x[1] * y[2] < y[1] * x[2]
FracLE(x, y) == x[1] * y[2] <= y[1] * x[2]

ClusterPairs(P) == {pr \in SUBSET P : Cardinality(pr) = 2}

PairLinkage(dm, pr) ==
    LET A == CHOOSE X \in pr : TRUE
        B == CHOOSE X \in pr \ {A} : TRUE
    IN  Linkage(dm, A, B)

\* the similarity threshold taken for the distance threshold
below_similarity_threshold(linkage) == FracLT(linkage, <<SIMILARITY_THRESHOLD, 1>>)

\* distance_threshold=DISTANCE_THRESHOLD: the linkage distance at or above
\* which clusters are not merged
below_threshold(linkage) == FracLT(linkage, <<DISTANCE_THRESHOLD, 1>>)

\* AgglomerativeClustering(n_clusters=None, linkage="average",
\* distance_threshold=DISTANCE_THRESHOLD): the two clusters of smallest linkage
\* are merged as long as that linkage is below the threshold; which of several
\* smallest pairs is merged first is the library's choice
RECURSIVE Agglomerate(_, _)
Agglomerate(dm, P) ==
    IF Cardinality(P) < 2 THEN {P}
    ELSE LET pairs == ClusterPairs(P)
             smallest == {pr \in pairs :
                             \A other \in pairs :
                                 FracLE(PairLinkage(dm, pr), PairLinkage(dm, other))}
             merged(pr) == (P \ pr) \cup {UNION pr}
         IN  IF \E pr \in smallest : below_threshold(PairLinkage(dm, pr))
             THEN UNION {Agglomerate(dm, merged(pr)) : pr \in smallest}
             ELSE {P}

SetMin(S) == CHOOSE x \in S : \A y \in S : x <= y

\* fit_predict(dist_matrix): the label arrays the library may return, a
\* cluster being labelled by its smallest index
fit_predict(dm) ==
    LET n == Len(dm)
    IN  { [i \in 1..n |-> SetMin(CHOOSE C \in P : i \in C)] :
            P \in Agglomerate(dm, {{i} : i \in 1..n}) }

\* the indices in ascending order
RECURSIVE SortedIndices(_)
SortedIndices(S) ==
    IF S = {} THEN <<>>
    ELSE <<SetMin(S)>> \o SortedIndices(S \ {SetMin(S)})

\* the grouping loop started at the second index
group_by_label_from_second(labels) ==
    LET n == Len(labels)
        firsts == {i \in 2..n : \A j \in 2..(i - 1) : labels[j] # labels[i]}
        order == SortedIndices(firsts)
    IN  [c \in 1..Len(order) |->
            SortedIndices({i \in 2..n : labels[i] = labels[order[c]]})]

\* lines 62-67: clustered_groups[label].append(idx) for idx in order, then
\* list(clustered_groups.values()): clusters in the order of their first index
group_by_label(labels) ==
    LET n == Len(labels)
        firsts == {i \in 1..n : \A j \in 1..(i - 1) : labels[j] # labels[i]}
        order == SortedIndices(firsts)
    IN  [c \in 1..Len(order) |->
            SortedIndices({i \in 1..n : labels[i] = labels[order[c]]})]

\* lines 45-51: the distance matrix of the question entries of a topic
dist_matrix(d, question_entries) ==
    [i \in 1..Len(question_entries) |->
        [j \in 1..Len(question_entries) |->
            Distance(d, question_entries[i].text, question_entries[j].text)]]

\* cluster_questions_within_topic: the cluster lists it may return
cluster_questions_within_topic(d, question_entries) ==
    IF Len(question_entries) < 2 THEN { << <<1>> >> }
    ELSE {group_by_label(labels) : labels \in fit_predict(dist_matrix(d, question_entries))}

\* the last index of the cluster with the least sum of distances
find_medoid_last(cluster_indices, dm) ==
    LET sum_distances == [r \in 1..Len(cluster_indices) |->
            SumSeq([c \in 1..Len(cluster_indices) |->
                        dm[cluster_indices[r]][cluster_indices[c]]])]
        medoid_idx_relative ==
            CHOOSE r \in 1..Len(cluster_indices) :
                /\ \A c \in 1..Len(cluster_indices) : sum_distances[r] <= sum_distances[c]
                /\ \A c \in (r + 1)..Len(cluster_indices) :
                       sum_distances[c] > sum_distances[r]
    IN  cluster_indices[medoid_idx_relative]

\* find_medoid: the first index of the cluster with the least sum of distances
\* to the members of the cluster (np.argmin)
find_medoid(cluster_indices, dm) ==
    LET sum_distances == [r \in 1..Len(cluster_indices) |->
            SumSeq([c \in 1..Len(cluster_indices) |->
                        dm[cluster_indices[r]][cluster_indices[c]]])]
        medoid_idx_relative ==
            CHOOSE r \in 1..Len(cluster_indices) :
                /\ \A c \in 1..Len(cluster_indices) : sum_distances[r] <= sum_distances[c]
                /\ \A c \in 1..(r - 1) : sum_distances[c] > sum_distances[r]
    IN  cluster_indices[medoid_idx_relative]

----------------------------------------------------------------------------
(* canonical_engine.py: compute_canonical_questions *)

\* no topic is left out of the grouping
is_grouped_always(topic) == TRUE

\* lines 77-78: the Module-Level Fallback is not a topic to group by
is_grouped(topic) == topic # FALLBACK_TOPIC

\* lines 74-76: the (topic, question entry) pairs in the order of the two loops
topic_entries(mapped) ==
    Flatten([i \in 1..Len(mapped) |->
        [k \in 1..Len(mapped[i].mapped_topics) |->
            [topic |-> mapped[i].mapped_topics[k].topic,
             entry |-> [paper_name |-> mapped[i].paper_name,
                        question_number |-> mapped[i].question_number,
                        text |-> mapped[i].text]]]])

\* topic_questions[topic].append(entry) on a defaultdict(list), the dict being
\* the sequence of its items in insertion order
append_entry(tq, topic, entry) ==
    IF \E i \in 1..Len(tq) : tq[i].topic = topic
    THEN [i \in 1..Len(tq) |->
            IF tq[i].topic = topic
            THEN [topic |-> topic, questions |-> Append(tq[i].questions, entry)]
            ELSE tq[i]]
    ELSE Append(tq, [topic |-> topic, questions |-> <<entry>>])

RECURSIVE append_entries(_, _)
append_entries(tq, pairs) ==
    IF pairs = <<>> THEN tq
    ELSE append_entries(
             IF is_grouped(Head(pairs).topic)
             THEN append_entry(tq, Head(pairs).topic, Head(pairs).entry)
             ELSE tq,
             Tail(pairs))

\* lines 72-84
group_by_topic(mapped) == append_entries(<<>>, topic_entries(mapped))

\* a topic with a single question is clustered as well
is_clustered_always(entries) == TRUE

\* lines 92-93
is_clustered(entries) == Len(entries) >= 2

\* a cluster of one question forms a group as well
forms_group_always(cluster_indices) == TRUE

\* lines 99-100
forms_group(cluster_indices) == Len(cluster_indices) >= 2

\* the references in the order of the cluster, not sorted
references_unsorted(entries, cluster_indices) ==
    [i \in 1..Len(cluster_indices) |-> format_reference(entries[cluster_indices[i]])]

\* lines 106-109 with the sorted() of line 114
references(entries, cluster_indices) ==
    sorted_strings([i \in 1..Len(cluster_indices) |->
                        format_reference(entries[cluster_indices[i]])])

\* lines 102-115
canonical_group(entries, cluster_indices, dm) ==
    [canonical_question |-> entries[find_medoid(cluster_indices, dm)].text,
     occurrences |-> Len(cluster_indices),
     references |-> references(entries, cluster_indices)]

\* a sort by occurrences, largest first, that puts a group before the groups of
\* the same occurrences that precede it
RECURSIVE sorted_by_occurrences_unstable(_)
sorted_by_occurrences_unstable(s) ==
    IF s = <<>> THEN <<>>
    ELSE LET rest == sorted_by_occurrences_unstable(SubSeq(s, 1, Len(s) - 1))
             x == s[Len(s)]
             ahead == SelectSeq(rest, LAMBDA e : e.occurrences > x.occurrences)
             behind == SelectSeq(rest, LAMBDA e : e.occurrences <= x.occurrences)
         IN  ahead \o <<x>> \o behind

\* line 118: a stable sort by occurrences, largest first
RECURSIVE sorted_by_occurrences(_)
sorted_by_occurrences(s) ==
    IF s = <<>> THEN <<>>
    ELSE LET rest == sorted_by_occurrences(SubSeq(s, 1, Len(s) - 1))
             x == s[Len(s)]
             ahead == SelectSeq(rest, LAMBDA e : e.occurrences >= x.occurrences)
             behind == SelectSeq(rest, LAMBDA e : e.occurrences < x.occurrences)
         IN  ahead \o <<x>> \o behind

\* lines 97-115 and 118: the groups of a topic's clusters
canonical_groups(entries, clusters, dm) ==
    LET kept == SelectSeq(clusters, forms_group)
    IN  sorted_by_occurrences([c \in 1..Len(kept) |->
                                  canonical_group(entries, kept[c], dm)])

\* a topic is stored with whatever groups it has
is_stored_always(groups) == TRUE

\* line 117
is_stored(groups) == groups # <<>>

----------------------------------------------------------------------------
(* Actions *)

NoScores == [similarities |-> <<>>, topic_scores |-> <<>>]
NoCall == [op |-> "none"]
NoFile == [written |-> FALSE]

\* lines 239-254: the selectors are built from selected_modules; each
\* constructor ends with one encode of its texts (lines 107 and 163), whatever
\* their number
Construct ==
    /\ pc = "start"
    /\ module_ids' = ModuleSelector_ids(selected_modules)
    /\ topic_metadata' = TopicSelector_metadata(selected_modules)
    /\ topic_token_sets' = TopicSelector_token_sets(selected_modules)
    /\ encode_calls' = encode_calls + 2
    /\ pc' = "loop"
    /\ UNCHANGED <<selected_modules, questions, enriched_questions, q_scores, call>>
    /\ UNCHANGED <<canonicalVars, jobVars, callVars>>

\* lines 256-299 for the next question: its text is encoded (line 264), then
\* with no module np.dot / np.max of select_modules raises ValueError and the
\* call ends
MapQuestion ==
    /\ pc = "loop"
    /\ Len(enriched_questions) < Len(questions)
    /\ encode_calls' = encode_calls + 1
    /\ LET q == questions[Len(enriched_questions) + 1]
       IN  IF module_ids = <<>>
           THEN /\ pc' = "raised"
                /\ UNCHANGED <<enriched_questions, q_scores>>
           ELSE \E similarities \in [1..Len(module_ids) -> ModuleScores],
                   topic_scores \in [1..Len(topic_metadata) -> PipelineTopicScores] :
                    /\ q_scores' = [similarities |-> similarities,
                                    topic_scores |-> topic_scores]
                    /\ enriched_questions' = Append(enriched_questions,
                           map_question(q, module_ids, topic_metadata, topic_token_sets,
                               similarities,
                               [i \in DOMAIN topic_scores |-> topic_scores[i][1]],
                               [i \in DOMAIN topic_scores |-> topic_scores[i][2]]))
                    /\ pc' = pc
    /\ UNCHANGED <<selected_modules, questions, module_ids, topic_metadata,
                   topic_token_sets, call>>
    /\ UNCHANGED <<canonicalVars, jobVars, callVars>>

\* line 303
Return ==
    /\ pc = "loop"
    /\ Len(enriched_questions) = Len(questions)
    /\ pc' = "returned"
    /\ UNCHANGED <<selected_modules, questions, module_ids, topic_metadata,
                   topic_token_sets, enriched_questions, q_scores, call, encode_calls>>
    /\ UNCHANGED <<canonicalVars, jobVars, callVars>>

\* a call of ModuleSelector.select_modules on a built selector
SelectModulesCall ==
    /\ pc = "loop"
    /\ call = NoCall
    /\ module_ids # <<>>
    /\ \E similarities \in [1..Len(module_ids) -> ModuleScores] :
           call' = [op |-> "select_modules",
                    similarities |-> similarities,
                    result |-> select_modules(module_ids, similarities)]
    /\ UNCHANGED <<selected_modules, questions, pc, module_ids, topic_metadata,
                   topic_token_sets, enriched_questions, q_scores, encode_calls>>
    /\ UNCHANGED <<canonicalVars, jobVars, callVars>>

\* a call of TopicSelector.select_topics on a built selector
SelectTopicsCall ==
    /\ pc = "loop"
    /\ call = NoCall
    /\ \E topic_scores \in [1..Len(topic_metadata) -> TopicScores],
          question_tokens \in QuestionTokenSets,
          allowed_modules \in SUBSET Range(module_ids) :
           LET similarities == [i \in DOMAIN topic_scores |-> topic_scores[i][1]]
               fuzzy == [i \in DOMAIN topic_scores |-> topic_scores[i][2]]
           IN  call' = [op |-> "select_topics",
                        similarities |-> similarities,
                        fuzzy |-> fuzzy,
                        question_tokens |-> question_tokens,
                        allowed_modules |-> allowed_modules,
                        result |-> select_topics(topic_metadata, topic_token_sets,
                                       similarities, fuzzy, question_tokens,
                                       allowed_modules)]
    /\ UNCHANGED <<selected_modules, questions, pc, module_ids, topic_metadata,
                   topic_token_sets, enriched_questions, q_scores, encode_calls>>
    /\ UNCHANGED <<canonicalVars, jobVars, callVars>>

\* compute_canonical_questions, lines 70-84
GroupByTopic ==
    /\ canon_pc = "start"
    /\ topic_questions' = group_by_topic(mapped_results)
    /\ canon_pc' = "topics"
    /\ UNCHANGED <<mapped_results, dist, topic_clusters, canonical_output, canonical_file>>
    /\ UNCHANGED <<mapperVars, jobVars, callVars>>

\* compute_canonical_questions, one iteration of the loop of lines 91-119
CanonicalTopic ==
    /\ canon_pc = "topics"
    /\ Len(topic_clusters) < Len(topic_questions)
    /\ LET item == topic_questions[Len(topic_clusters) + 1]
           dm == dist_matrix(dist, item.questions)
       IN  IF ~is_clustered(item.questions)
           THEN /\ topic_clusters' = Append(topic_clusters,
                       [topic |-> item.topic, clustered |-> FALSE, clusters |-> <<>>])
                /\ UNCHANGED canonical_output
           ELSE \E clusters \in cluster_questions_within_topic(dist, item.questions) :
                    LET groups == canonical_groups(item.questions, clusters, dm)
                    IN  /\ topic_clusters' = Append(topic_clusters,
                               [topic |-> item.topic, clustered |-> TRUE,
                                clusters |-> clusters])
                        /\ canonical_output' =
                               IF is_stored(groups)
                               THEN Append(canonical_output,
                                           [topic |-> item.topic, groups |-> groups])
                               ELSE canonical_output
    /\ UNCHANGED <<mapped_results, dist, canon_pc, topic_questions, canonical_file>>
    /\ UNCHANGED <<mapperVars, jobVars, callVars>>

\* compute_canonical_questions, lines 125-132
SaveCanonical ==
    /\ canon_pc = "topics"
    /\ Len(topic_clusters) = Len(topic_questions)
    /\ canonical_file' = [written |-> TRUE, content |-> canonical_output]
    /\ canon_pc' = "returned"
    /\ UNCHANGED <<mapped_results, dist, topic_questions, topic_clusters, canonical_output>>
    /\ UNCHANGED <<mapperVars, jobVars, callVars>>

----------------------------------------------------------------------------
(* backend: job_manager.py, run_analysis of main.py, get_model of embedding_engine.py *)

MaxJobs == 2

NoResult == [is_none |-> TRUE]

\* the stages of background() that write a result file into ANALYTICS_OUTPUT_DIR
Stages == <<"importance", "grading", "style", "canonical">>

StageLog ==
    [importance |-> "Computing importance...", grading |-> "Computing grading...",
     style |-> "Computing style...", canonical |-> "Computing canonical clusters..."]

\* where a thread goes when the stage at pc has returned
AfterStage ==
    [importance |-> "grading", grading |-> "style", style |-> "canonical_get_model",
     canonical |-> "complete_status"]

\* the stage whose start is logged when the stage at pc has returned
LoggedNext == [importance |-> "grading", grading |-> "style", style |-> "canonical"]

\* where a thread goes when the EmbeddingEngine() started at pc is built
AfterEngine ==
    [mapper_get_model |-> "mapping", mapper_load_model |-> "mapping",
     mapper_return_model |-> "mapping",
     canonical_get_model |-> "canonical", canonical_load_model |-> "canonical",
     canonical_return_model |-> "canonical"]

LoadStep == [mapper_get_model |-> "mapper_load_model",
             canonical_get_model |-> "canonical_load_model"]

ReturnStep == [mapper_load_model |-> "mapper_return_model",
               canonical_load_model |-> "canonical_return_model"]

JobIds == 1..Len(jobs)

\* job_manager.log, lines 15-16
log(js, job_id, message) ==
    [js EXCEPT ![job_id].logs = Append(@, message)]

\* the messages logged at lines 217, 228, 232 and 235
PrepareLogs ==
    <<"Loading syllabus...", "Extracting structured questions...", "Cleaning JSON...",
      "Mapping topics...">>

\* log called with each message in turn
log_all(js, job_id, messages) ==
    [js EXCEPT ![job_id].logs = @ \o messages]

\* job_manager.fail_job, lines 22-24
fail_job(js, job_id, error) ==
    [js EXCEPT ![job_id].status = "error", ![job_id].logs = Append(@, error)]

\* POST /run-analysis, lines 210-213 and 261-263: create_job (job_manager 6-13)
\* and the start of the background thread
run_analysis(limit) ==
    /\ Len(jobs) < limit
    /\ jobs' = Append(jobs, [status |-> "running", logs |-> <<>>, result |-> NoResult])
    /\ thread_pc' = Append(thread_pc, "prepare")
    /\ written' = Append(written, {})
    /\ engines' = Append(engines, <<>>)
    /\ started_with' = Append(started_with, [path |-> CURRENT_SYLLABUS_PATH,
                                             code |-> CURRENT_COURSE_CODE])
    /\ stale' = Append(stale, FALSE)
    /\ cleared' = Append(cleared, FALSE)
    /\ UNCHANGED <<model_instance, model_loads, CURRENT_SYLLABUS_PATH,
                   CURRENT_COURSE_CODE, polled>>
    /\ UNCHANGED <<mapperVars, canonicalVars, callVars>>

RunAnalysis == run_analysis(MaxJobs)

\* the thread of job j reads CURRENT_SYLLABUS_PATH (lines 218, 233)
reads_path(j) ==
    /\ stale' = [stale EXCEPT ![j] = @ \/ CURRENT_SYLLABUS_PATH # started_with[j].path]
    /\ UNCHANGED <<CURRENT_SYLLABUS_PATH, CURRENT_COURSE_CODE, polled, started_with, cleared>>

\* the thread of job j reads CURRENT_COURSE_CODE (lines 237, 240, 243, 246, 249)
reads_code(j) ==
    /\ stale' = [stale EXCEPT ![j] = @ \/ CURRENT_COURSE_CODE # started_with[j].code]
    /\ UNCHANGED <<CURRENT_SYLLABUS_PATH, CURRENT_COURSE_CODE, polled, started_with, cleared>>

\* an exception ends the thread and fail_job is not called
raise_unhandled(j) ==
    /\ jobs' = jobs
    /\ thread_pc' = [thread_pc EXCEPT ![j] = "done"]

\* an exception leaves the try block: lines 258-259
Raise(j) ==
    /\ jobs' = fail_job(jobs, j, "error")
    /\ thread_pc' = [thread_pc EXCEPT ![j] = "done"]

\* background(), lines 216-236: the syllabus is loaded, the modules are
\* selected, the questions extracted, cleaned and loaded; any of it may raise,
\* and Path(None) of get_or_create_enriched_syllabus does when there is no
\* syllabus
Prepare(j) ==
    /\ thread_pc[j] = "prepare"
    /\ reads_path(j)
    /\ \/ /\ CURRENT_SYLLABUS_PATH # 0
          /\ jobs' = log_all(jobs, j, PrepareLogs)
          /\ thread_pc' = [thread_pc EXCEPT ![j] = "mapper_get_model"]
       \/ \E n \in 1..Len(PrepareLogs) :
              /\ jobs' = fail_job(log_all(jobs, j, SubSeq(PrepareLogs, 1, n)), j, "error")
              /\ thread_pc' = [thread_pc EXCEPT ![j] = "done"]
    /\ UNCHANGED <<written, engines, model_instance, model_loads>>
    /\ UNCHANGED <<mapperVars, canonicalVars, callVars>>

\* EmbeddingEngine() (topic_mapper 239, canonical_engine 70) calls get_model:
\* the test of line 13 of embedding_engine.py, and line 17 when a model is there
GetModelCheck(j) ==
    /\ thread_pc[j] \in DOMAIN LoadStep
    /\ IF model_instance = 0
       THEN /\ thread_pc' = [thread_pc EXCEPT ![j] = LoadStep[thread_pc[j]]]
            /\ UNCHANGED engines
       ELSE /\ engines' = [engines EXCEPT ![j] = Append(@, model_instance)]
            /\ thread_pc' = [thread_pc EXCEPT ![j] = AfterEngine[thread_pc[j]]]
    /\ UNCHANGED <<jobs, written, model_instance, model_loads>>
    /\ UNCHANGED <<serverVars, mapperVars, canonicalVars, callVars>>

\* get_model, line 15: a SentenceTransformer is built and stored in _model_instance
GetModelLoad(j) ==
    /\ thread_pc[j] \in DOMAIN ReturnStep
    /\ model_loads' = model_loads + 1
    /\ model_instance' = model_loads + 1
    /\ thread_pc' = [thread_pc EXCEPT ![j] = ReturnStep[thread_pc[j]]]
    /\ UNCHANGED <<jobs, written, engines>>
    /\ UNCHANGED <<serverVars, mapperVars, canonicalVars, callVars>>

\* get_model, line 17, and line 22: self.model is what _model_instance holds now
GetModelReturn(j) ==
    /\ thread_pc[j] \in {"mapper_return_model", "canonical_return_model"}
    /\ engines' = [engines EXCEPT ![j] = Append(@, model_instance)]
    /\ thread_pc' = [thread_pc EXCEPT ![j] = AfterEngine[thread_pc[j]]]
    /\ UNCHANGED <<jobs, written, model_instance, model_loads>>
    /\ UNCHANGED <<serverVars, mapperVars, canonicalVars, callVars>>

\* line 237 after the engine is built: map_questions_to_topics returns or raises
Mapping(j) ==
    /\ thread_pc[j] = "mapping"
    /\ reads_code(j)
    /\ \/ /\ jobs' = log(jobs, j, StageLog.importance)
          /\ thread_pc' = [thread_pc EXCEPT ![j] = "importance"]
       \/ Raise(j)
    /\ UNCHANGED <<written, engines, model_instance, model_loads>>
    /\ UNCHANGED <<mapperVars, canonicalVars, callVars>>

\* the stage has written its file (importance_engine 73-78, grading_engine
\* 70-75, style_engine 99-102, canonical_engine 125-129) and returned
stage_returns(j, stage) ==
    /\ written' = [written EXCEPT ![j] = @ \cup {stage}]
    /\ thread_pc' = [thread_pc EXCEPT ![j] = AfterStage[stage]]
    /\ jobs' = IF stage \in DOMAIN LoggedNext
               THEN log(jobs, j, StageLog[LoggedNext[stage]])
               ELSE jobs

\* lines 240-249: a stage computes its output, saves it to its file and
\* returns, or raises before the file is written
Stage(j) ==
    /\ thread_pc[j] \in Range(Stages)
    /\ reads_code(j)
    /\ \/ stage_returns(j, thread_pc[j])
       \/ /\ Raise(j)
          /\ UNCHANGED written
    /\ UNCHANGED <<engines, model_instance, model_loads>>
    /\ UNCHANGED <<mapperVars, canonicalVars, callVars>>

\* job_manager.complete_job, line 19
CompleteStatus(j) ==
    /\ thread_pc[j] = "complete_status"
    /\ jobs' = [jobs EXCEPT ![j].status = "completed"]
    /\ thread_pc' = [thread_pc EXCEPT ![j] = "complete_result"]
    /\ UNCHANGED <<written, engines, model_instance, model_loads>>
    /\ UNCHANGED <<serverVars, mapperVars, canonicalVars, callVars>>

\* job_manager.complete_job, line 20
CompleteResult(j) ==
    /\ thread_pc[j] = "complete_result"
    /\ jobs' = [jobs EXCEPT ![j].result = [is_none |-> FALSE, keys |-> Range(Stages)]]
    /\ thread_pc' = [thread_pc EXCEPT ![j] = "done"]
    /\ UNCHANGED <<written, engines, model_instance, model_loads>>
    /\ UNCHANGED <<serverVars, mapperVars, canonicalVars, callVars>>

----------------------------------------------------------------------------
(* Specifications *)

\* compute_canonical_questions is not running
CanonicalIdle ==
    /\ mapped_results = <<>>
    /\ dist = <<>>
    /\ canon_pc = "idle"
    /\ topic_questions = <<>>
    /\ topic_clusters = <<>>
    /\ canonical_output = <<>>
    /\ canonical_file = NoFile

\* map_questions_to_topics is not running
MapperIdle ==
    /\ selected_modules = <<>>
    /\ questions = <<>>
    /\ pc = "idle"
    /\ module_ids = <<>>
    /\ topic_metadata = <<>>
    /\ topic_token_sets = <<>>
    /\ enriched_questions = <<>>
    /\ q_scores = NoScores
    /\ call = NoCall
    /\ encode_calls = 0

NoReturn == [returned |-> FALSE]
NoPoll == [polled |-> FALSE]

\* no function is called directly
CallIdle ==
    /\ arg = <<>>
    /\ ret = NoReturn

\* no job has been created and no model loaded
NoJobs ==
    /\ jobs = <<>>
    /\ thread_pc = <<>>
    /\ written = <<>>
    /\ engines = <<>>
    /\ model_instance = 0
    /\ model_loads = 0
    /\ polled = NoPoll
    /\ started_with = <<>>
    /\ stale = <<>>
    /\ cleared = <<>>

\* the process has started: lines 42-43 of main.py
JobsIdle ==
    /\ NoJobs
    /\ CURRENT_SYLLABUS_PATH = 0
    /\ CURRENT_COURSE_CODE = 0

\* a syllabus has been uploaded: lines 102-103 of main.py
SyllabusUploaded ==
    /\ NoJobs
    /\ CURRENT_SYLLABUS_PATH = 1
    /\ CURRENT_COURSE_CODE = 1

InitWith(modules, qs) ==
    /\ selected_modules = modules
    /\ questions = qs
    /\ pc = "start"
    /\ module_ids = <<>>
    /\ topic_metadata = <<>>
    /\ topic_token_sets = <<>>
    /\ enriched_questions = <<>>
    /\ q_scores = NoScores
    /\ call = NoCall
    /\ encode_calls = 0
    /\ CanonicalIdle
    /\ JobsIdle
    /\ CallIdle

\* a run of map_questions_to_topics
Init ==
    \E modules \in Syllabi(MaxModules, MaxPipelineTopics), qs \in QuestionLists :
        InitWith(modules, qs)

Next == Construct \/ MapQuestion \/ Return

Spec == Init /\ [][Next]_vars

\* the selectors of a syllabus, built and called once
InitSelectors ==
    \E modules \in Syllabi(MaxModules, MaxSelectorTopics) : InitWith(modules, <<>>)

NextSelectors == Construct \/ SelectModulesCall \/ SelectTopicsCall

SpecSelectors == InitSelectors /\ [][NextSelectors]_vars

\* a run of compute_canonical_questions on Mapped Questions, for the distances
\* of the oracle's vectors of their texts
InitCanonical ==
    /\ MapperIdle
    /\ JobsIdle
    /\ CallIdle
    /\ \E mapped \in MappedResultLists :
           /\ mapped_results = mapped
           /\ dist \in [TextPairs(Len(mapped)) -> DistValues]
    /\ canon_pc = "start"
    /\ topic_questions = <<>>
    /\ topic_clusters = <<>>
    /\ canonical_output = <<>>
    /\ canonical_file = NoFile

NextCanonical == GroupByTopic \/ CanonicalTopic \/ SaveCanonical

SpecCanonical == InitCanonical /\ [][NextCanonical]_vars

\* the server process after the upload of a syllabus: /run-analysis requests
\* and the threads they start
InitJobs == MapperIdle /\ CanonicalIdle /\ SyllabusUploaded /\ CallIdle

NextJobs ==
    \/ RunAnalysis
    \/ \E j \in JobIds :
           \/ Prepare(j)
           \/ GetModelCheck(j)
           \/ GetModelLoad(j)
           \/ GetModelReturn(j)
           \/ Mapping(j)
           \/ Stage(j)
           \/ CompleteStatus(j)
           \/ CompleteResult(j)

SpecJobs == InitJobs /\ [][NextJobs]_vars

----------------------------------------------------------------------------
(* Properties of a run of map_questions_to_topics (Spec) *)

\* a question has been mapped; q_scores holds the scores it was mapped with
Mapped == pc \in {"loop", "returned"} /\ enriched_questions # <<>>

LastIndex == Len(enriched_questions)
LastQuestion == questions[LastIndex]
LastMapped == enriched_questions[LastIndex]

\* what the selectors returned for the question mapped last
LastModules == select_modules(module_ids, q_scores.similarities)
LastAllowed == {LastModules[i][1] : i \in 1..Len(LastModules)}
LastTopics ==
    select_topics(topic_metadata, topic_token_sets,
                  [i \in DOMAIN q_scores.topic_scores |-> q_scores.topic_scores[i][1]],
                  [i \in DOMAIN q_scores.topic_scores |-> q_scores.topic_scores[i][2]],
                  LastQuestion.tokens, LastAllowed)

\* position of a scored topic in topic_metadata
MetaIndex(t) ==
    CHOOSE i \in DOMAIN topic_metadata :
        topic_metadata[i].module_id = t.module_id /\ topic_metadata[i].topic = t.topic

\* similarity of the last question to module m
ModuleScore(m) ==
    q_scores.similarities[CHOOSE i \in DOMAIN module_ids : module_ids[i] = m]

AllocatedMarks(e) == [k \in DOMAIN e.mapped_topics |-> e.mapped_topics[k].allocated_marks]

\* C1: for every returned question with at least one mapped topic, the
\* allocated marks of its mapped topics add up to the question's marks, and
\* each mapped topic carries marks / (number of mapped topics).
C1_MarksSplitEqually ==
    \A i \in DOMAIN enriched_questions :
        LET e == enriched_questions[i]
            n == Len(e.mapped_topics)
        IN  n >= 1 =>
              /\ SumSeq(AllocatedMarks(e)) = e.marks
              /\ e.marks = questions[i].marks
              /\ \A k \in 1..n : n * e.mapped_topics[k].allocated_marks = e.marks

\* a question of 7 marks mapped to two topics: 3.5 marks each
C1_Witness ==
    \E i \in DOMAIN enriched_questions :
        /\ Len(enriched_questions[i].mapped_topics) = 2
        /\ enriched_questions[i].marks = 7 * MarksUnit

\* C3: when select_topics returns no topic for a question and select_modules
\* returned at least one module, the mapped question has exactly one mapped
\* topic: "Module-Level Fallback", confidence 0.30, the question's full marks.
C3_FallbackIsSingleFullMarks ==
    (Mapped /\ LastTopics = <<>> /\ LastModules # <<>>) =>
        LET mt == LastMapped.mapped_topics
        IN  /\ Len(mt) = 1
            /\ mt[1].topic = FALLBACK_TOPIC
            /\ mt[1].confidence = FALLBACK_CONFIDENCE
            /\ mt[1].allocated_marks = LastQuestion.marks

\* no topic cleared the floor although two modules were selected
C3_Witness ==
    /\ Mapped /\ LastTopics = <<>> /\ Len(LastModules) = 2
    /\ LastMapped.mapped_topics[1].topic = FALLBACK_TOPIC

\* C4: the module of the Module-Level Fallback topic is the module with the
\* highest similarity among the modules select_modules returned.
C4_FallbackIsTopModule ==
    Mapped =>
        \A k \in DOMAIN LastMapped.mapped_topics :
            LastMapped.mapped_topics[k].topic = FALLBACK_TOPIC =>
                \A j \in DOMAIN LastModules :
                    LastModules[j][2] <= ModuleScore(LastMapped.mapped_topics[k].module_id)

\* C5: with a non-empty module list the run never raises, and every question
\* processed is in the result, in order, with at least one mapped topic.
C5_NoQuestionFails ==
    selected_modules # <<>> =>
        /\ pc # "raised"
        /\ Len(enriched_questions) <= Len(questions)
        /\ pc = "returned" => Len(enriched_questions) = Len(questions)
        /\ \A i \in DOMAIN enriched_questions :
              /\ enriched_questions[i].paper_name = questions[i].paper_name
              /\ enriched_questions[i].question_number = questions[i].question_number
              /\ Len(enriched_questions[i].mapped_topics) >= 1

\* a run returned in which a question cleared no topic's floor
C5_Witness ==
    /\ pc = "returned" /\ selected_modules # <<>> /\ enriched_questions # <<>>
    /\ LastTopics = <<>>

\* C6: every topic select_topics returned for a question belongs to a module
\* select_modules returned for it and has semantic similarity >= 0.20; so every
\* mapped topic other than the fallback has such a module_id.
C6_TopicsWithinAllowedModules ==
    Mapped =>
        /\ \A k \in DOMAIN LastTopics :
              /\ LastTopics[k].module_id \in LastAllowed
              /\ q_scores.topic_scores[MetaIndex(LastTopics[k])][1] >= MIN_SEMANTIC_FLOOR
        /\ \A k \in DOMAIN LastMapped.mapped_topics :
              LET t == LastMapped.mapped_topics[k]
              IN  t.topic # FALLBACK_TOPIC =>
                    /\ \E j \in DOMAIN LastModules : LastModules[j][1] = t.module_id
                    /\ in_module_margin(ModuleScore(t.module_id),
                                        np_max(q_scores.similarities))
                    /\ q_scores.topic_scores[MetaIndex(t)][1] >= MIN_SEMANTIC_FLOOR

\* a topic of a module outside the margin clears the floor, and a topic of a
\* selected module, exactly at the floor, is mapped
C6_Witness ==
    /\ Mapped
    /\ \E i \in DOMAIN topic_metadata :
          /\ topic_metadata[i].module_id \notin LastAllowed
          /\ q_scores.topic_scores[i][1] >= MIN_SEMANTIC_FLOOR
    /\ \E k \in DOMAIN LastMapped.mapped_topics :
          /\ LastMapped.mapped_topics[k].topic # FALLBACK_TOPIC
          /\ q_scores.topic_scores[MetaIndex(LastMapped.mapped_topics[k])][1]
                = MIN_SEMANTIC_FLOOR

----------------------------------------------------------------------------
(* Properties of the selectors called directly (SpecSelectors) *)

Permute(s, p) == [i \in DOMAIN s |-> s[p[i]]]

Ids(scored_modules) == {scored_modules[i][1] : i \in 1..Len(scored_modules)}

\* the topics of an allowed module that clear the semantic floor in the call
CallQualifying ==
    {i \in DOMAIN topic_metadata :
        /\ topic_metadata[i].module_id \in call.allowed_modules
        /\ call.similarities[i] >= MIN_SEMANTIC_FLOOR}

\* the unrounded final score of topic i in the call, and its confidence
CallFinal(i) ==
    final_score(call.similarities[i], topic_token_sets[i], call.question_tokens,
                call.fuzzy[i])
CallConfidence(i) == confidence_of(CallFinal(i))

\* a >= b and a >= b - TOPIC_MARGIN for final scores <<Num, Den>>
FinalGE(a, b) == a[1] * b[2] >= b[1] * a[2]
FinalInMargin(a, b) ==
    a[1] * b[2] + TOPIC_MARGIN * ((ScoreUnit * WeightUnit) \div ConfUnit) * a[2] * b[2]
        >= b[1] * a[2]

\* C2: for a non-empty module list select_modules returns exactly the modules
\* scoring >= S - MODULE_MARGIN, S the maximum score, each once and with its
\* raw score; a module exactly at S - MODULE_MARGIN is in, any module below
\* is out, and a top-scoring module is always in.
C2_SelectModulesIsMarginBand ==
    call.op = "select_modules" =>
        LET sims == call.similarities
            S == CHOOSE x \in Range(sims) : \A y \in Range(sims) : y <= x
            band == {i \in DOMAIN sims : sims[i] >= S - MODULE_MARGIN}
        IN  /\ Len(call.result) = Cardinality(band)
            /\ Range(call.result) = {<<module_ids[i], sims[i]>> : i \in band}
            /\ \A i \in DOMAIN sims :
                  /\ sims[i] = S - MODULE_MARGIN => module_ids[i] \in Ids(call.result)
                  /\ sims[i] < S - MODULE_MARGIN => module_ids[i] \notin Ids(call.result)
                  /\ sims[i] = S => module_ids[i] \in Ids(call.result)

\* a module exactly MODULE_MARGIN below the top score is returned
C2_Witness ==
    /\ call.op = "select_modules"
    /\ \E i, j \in DOMAIN call.similarities :
          /\ call.similarities[i] = call.similarities[j] - MODULE_MARGIN
          /\ \A k \in DOMAIN call.similarities :
                call.similarities[k] <= call.similarities[j]
          /\ module_ids[i] \in Ids(call.result)

\* C7 as stated: the result is in descending order of (unrounded) final score,
\* has at most 4 topics, holds a topic of top final score T when a topic
\* qualifies, holds only topics with final score >= T - TOPIC_MARGIN, and holds
\* every qualifying topic of that band when the band has at most 4.
C7_ByFinalScore ==
    call.op = "select_topics" =>
        LET r == call.result
            at(k) == MetaIndex(r[k])
            band == {i \in CallQualifying :
                        \A j \in CallQualifying : FinalInMargin(CallFinal(i), CallFinal(j))}
        IN  /\ \A k \in 1..(Len(r) - 1) : FinalGE(CallFinal(at(k)), CallFinal(at(k + 1)))
            /\ Len(r) <= MAX_TOPICS_PER_QUESTION
            /\ CallQualifying # {} =>
                  \E k \in DOMAIN r :
                      \A j \in CallQualifying : FinalGE(CallFinal(at(k)), CallFinal(j))
            /\ \A k \in DOMAIN r : at(k) \in band
            /\ Cardinality(band) <= MAX_TOPICS_PER_QUESTION =>
                  {at(k) : k \in DOMAIN r} = band

\* C7 amended: the same in terms of the confidence, the final score rounded to
\* 4 decimals: the result is in descending order of confidence, has at most 4
\* topics, starts with a topic of top confidence T when a topic qualifies, holds
\* only qualifying topics with confidence >= T - TOPIC_MARGIN, and holds every
\* one of them when they are at most 4.
C7_ByConfidence ==
    call.op = "select_topics" =>
        LET r == call.result
            at(k) == MetaIndex(r[k])
            band == {i \in CallQualifying :
                        \A j \in CallQualifying :
                            CallConfidence(i) >= CallConfidence(j) - TOPIC_MARGIN}
        IN  /\ \A k \in DOMAIN r : r[k].confidence = CallConfidence(at(k))
            /\ \A k \in 1..(Len(r) - 1) : r[k].confidence >= r[k + 1].confidence
            /\ Len(r) <= MAX_TOPICS_PER_QUESTION
            /\ Cardinality({at(k) : k \in DOMAIN r}) = Len(r)
            /\ CallQualifying # {} =>
                  /\ r # <<>>
                  /\ \A j \in CallQualifying : r[1].confidence >= CallConfidence(j)
            /\ \A k \in DOMAIN r : at(k) \in band
            /\ Cardinality(band) <= MAX_TOPICS_PER_QUESTION =>
                  {at(k) : k \in DOMAIN r} = band

\* five topics lie in the band and four are returned, and a qualifying topic
\* lies outside the band
C7_Witness ==
    /\ call.op = "select_topics"
    /\ Len(call.result) = MAX_TOPICS_PER_QUESTION
    /\ Cardinality(CallQualifying) > MAX_TOPICS_PER_QUESTION
    /\ \E k \in DOMAIN call.result :
          call.result[k].confidence = call.result[1].confidence - TOPIC_MARGIN

\* C8: select_topics returns the empty list exactly when no topic of an
\* allowed module has semantic similarity >= 0.20; a topic that clears the
\* floor with no lexical overlap and a fuzzy ratio of 0 is still returned.
C8_EmptyIffNoneClearsFloor ==
    call.op = "select_topics" =>
        /\ (call.result = <<>>) <=> (CallQualifying = {})
        /\ \A i \in CallQualifying :
              (Cardinality(CallQualifying) = 1) =>
                  /\ Len(call.result) = 1
                  /\ MetaIndex(call.result[1]) = i

\* the only qualifying topic has no lexical overlap and fuzzy ratio 0
C8_Witness ==
    /\ call.op = "select_topics"
    /\ call.result # <<>>
    /\ \E i \in CallQualifying :
          /\ CallQualifying = {i}
          /\ topic_token_sets[i] \cap call.question_tokens = {}
          /\ call.fuzzy[i] = 0

\* C9: permuting the modules given to ModuleSelector, with the same score for
\* each module, does not change the set of module ids select_modules returns.
C9_ModuleSelectionOrderIndependent ==
    call.op = "select_modules" =>
        \A p \in Permutations(DOMAIN module_ids) :
            Ids(select_modules(Permute(module_ids, p), Permute(call.similarities, p)))
                = Ids(call.result)

\* the first module of the list is outside the margin of a later one
C9_Witness ==
    /\ call.op = "select_modules"
    /\ Len(module_ids) >= 2
    /\ module_ids[1] \notin Ids(call.result)
    /\ call.result # <<>>

\* C10: permuting the topics given to TopicSelector, with the same scores for
\* each topic, does not change the set of topics select_topics returns.
C10_TopicSelectionOrderIndependent ==
    call.op = "select_topics" =>
        \A p \in Permutations(DOMAIN topic_metadata) :
            Range(select_topics(Permute(topic_metadata, p), Permute(topic_token_sets, p),
                                Permute(call.similarities, p), Permute(call.fuzzy, p),
                                call.question_tokens, call.allowed_modules))
                = Range(call.result)

----------------------------------------------------------------------------
(* Properties of a run of compute_canonical_questions (SpecCanonical) *)

\* the groups of every topic stored so far
OutputGroups == UNION {Range(canonical_output[t].groups) : t \in 1..Len(canonical_output)}

\* the topic of position i of topic_questions has been through the loop body
Processed(i) == i \in 1..Len(topic_clusters)

\* C11: every canonical group of the output has occurrences >= 2: a cluster of
\* a single question never makes a group
C11_GroupsHaveTwoOccurrences ==
    /\ \A t \in 1..Len(canonical_output) :
           \A g \in 1..Len(canonical_output[t].groups) :
               canonical_output[t].groups[g].occurrences >= 2
    /\ canonical_file.written =>
           \A t \in 1..Len(canonical_file.content) :
               \A g \in 1..Len(canonical_file.content[t].groups) :
                   canonical_file.content[t].groups[g].occurrences >= 2

\* a topic was clustered into a cluster of one question beside a cluster that
\* made a group, and the output was written
C11_Witness ==
    /\ canonical_file.written
    /\ \E i \in 1..Len(topic_clusters) :
           /\ \E c \in 1..Len(topic_clusters[i].clusters) :
                  Len(topic_clusters[i].clusters[c]) = 1
           /\ \E c \in 1..Len(topic_clusters[i].clusters) :
                  Len(topic_clusters[i].clusters[c]) >= 2
           /\ \E t \in 1..Len(canonical_output) :
                  canonical_output[t].topic = topic_clusters[i].topic

\* the clusters are a partition of the indices 1..n: none is empty and every
\* index is in exactly one of them, once
IsPartition(clusters, n) ==
    /\ \A c \in 1..Len(clusters) : clusters[c] # <<>>
    /\ \A i \in 1..n :
           \E c \in 1..Len(clusters) :
               /\ \E k \in 1..Len(clusters[c]) :
                      /\ clusters[c][k] = i
                      /\ \A l \in 1..Len(clusters[c]) : clusters[c][l] = i => l = k
               /\ \A e \in 1..Len(clusters) : i \in Range(clusters[e]) => e = c
    /\ \A c \in 1..Len(clusters) : Range(clusters[c]) \subseteq 1..n

\* C12: for a topic with at least two questions the clusters returned by
\* cluster_questions_within_topic partition the indices of its questions, so
\* no question entry of the topic is in two of its canonical groups
C12_ClustersPartitionIndices ==
    /\ \A i \in 1..Len(topic_clusters) :
           topic_clusters[i].clustered =>
               /\ Len(topic_questions[i].questions) >= 2
               /\ IsPartition(topic_clusters[i].clusters,
                              Len(topic_questions[i].questions))
    /\ \A t \in 1..Len(canonical_output) :
           \A g, h \in 1..Len(canonical_output[t].groups) :
               g # h => Range(canonical_output[t].groups[g].references)
                            \cap Range(canonical_output[t].groups[h].references) = {}

\* a topic of three questions was split into two clusters
C12_Witness ==
    \E i \in 1..Len(topic_clusters) :
        /\ topic_clusters[i].clustered
        /\ Len(topic_questions[i].questions) = 3
        /\ Len(topic_clusters[i].clusters) = 2

\* sequence a is a rearrangement of sequence b
IsRearrangement(a, b) ==
    /\ Len(a) = Len(b)
    /\ \E f \in [1..Len(a) -> 1..Len(a)] :
           /\ \A i, j \in 1..Len(a) : f[i] = f[j] => i = j
           /\ \A i \in 1..Len(a) : a[i] = b[f[i]]

\* position in topic_questions / topic_clusters of a topic of the output
TopicIndex(topic) == CHOOSE i \in 1..Len(topic_questions) : topic_questions[i].topic = topic

\* the "paper_name - question_number" strings of the members of a cluster, in
\* the order of the cluster
MemberStrings(i, cluster_indices) ==
    [k \in 1..Len(cluster_indices) |->
        topic_questions[i].questions[cluster_indices[k]].paper_name
            \o <<32, 45, 32>>
            \o topic_questions[i].questions[cluster_indices[k]].question_number]

\* C13: the references of a canonical group hold one string
\* "paper_name - question_number" per member of its cluster, as many as its
\* occurrences, in ascending lexicographic order
C13_ReferencesSortedOnePerMember ==
    \A t \in 1..Len(canonical_output) :
        \A g \in 1..Len(canonical_output[t].groups) :
            LET group == canonical_output[t].groups[g]
                i == TopicIndex(canonical_output[t].topic)
            IN  /\ Len(group.references) = group.occurrences
                /\ \A k, l \in 1..Len(group.references) :
                       k < l => StrLE(group.references[k], group.references[l])
                /\ \E c \in 1..Len(topic_clusters[i].clusters) :
                       IsRearrangement(group.references,
                                       MemberStrings(i, topic_clusters[i].clusters[c]))

\* a group was written whose members are not in the order of their strings:
\* "b - 2" precedes "a - 10" in the cluster, and "a - 10" precedes "a - 2" in
\* the references
C13_Witness ==
    /\ canonical_file.written
    /\ \E t \in 1..Len(canonical_file.content) :
           \E g \in 1..Len(canonical_file.content[t].groups) :
               LET group == canonical_file.content[t].groups[g]
                   i == TopicIndex(canonical_file.content[t].topic)
               IN  /\ group.occurrences = 3
                   /\ \E c \in 1..Len(topic_clusters[i].clusters) :
                          /\ IsRearrangement(group.references,
                                 MemberStrings(i, topic_clusters[i].clusters[c]))
                          /\ group.references #
                                 MemberStrings(i, topic_clusters[i].clusters[c])
                   /\ group.references[1] = <<97, 32, 45, 32, 49, 48>>
                   /\ group.references[2] = <<97, 32, 45, 32, 50>>

\* the keys of the output dict
OutputTopics == {canonical_output[t].topic : t \in 1..Len(canonical_output)}

\* the clusters of the topic of position i that have two members or more
GroupClusters(i) ==
    {c \in 1..Len(topic_clusters[i].clusters) : Len(topic_clusters[i].clusters[c]) >= 2}

\* C14: a topic is a key of the output exactly when it produced at least one
\* canonical group, so no key has an empty list; a topic with fewer than two
\* questions is skipped and is never a key
C14_KeyIffSomeGroup ==
    /\ \A t \in 1..Len(canonical_output) : canonical_output[t].groups # <<>>
    /\ OutputTopics \subseteq {topic_clusters[i].topic : i \in 1..Len(topic_clusters)}
    /\ \A i \in 1..Len(topic_clusters) :
           /\ topic_clusters[i].topic \in OutputTopics
                  <=> (topic_clusters[i].clustered /\ GroupClusters(i) # {})
           /\ Len(topic_questions[i].questions) < 2 =>
                  /\ ~topic_clusters[i].clustered
                  /\ topic_clusters[i].topic \notin OutputTopics

\* the run returned with a topic of one question skipped beside a stored topic
C14_Witness ==
    /\ canon_pc = "returned"
    /\ canonical_output # <<>>
    /\ \E i \in 1..Len(topic_clusters) :
           /\ Len(topic_questions[i].questions) = 1
           /\ topic_clusters[i].topic \notin OutputTopics

\* the Mapped Questions whose only mapped topic is the Module-Level Fallback
FallbackOnly ==
    {k \in 1..Len(mapped_results) :
        \A j \in 1..Len(mapped_results[k].mapped_topics) :
            mapped_results[k].mapped_topics[j].topic = FALLBACK_TOPIC}

\* C15: "Module-Level Fallback" is never a key of the output, and a question
\* mapped to the fallback only is in no group and in no references list
C15_FallbackNeverGrouped ==
    /\ FALLBACK_TOPIC \notin OutputTopics
    /\ \A k \in FallbackOnly :
           \A group \in OutputGroups :
               /\ group.canonical_question # mapped_results[k].text
               /\ \A r \in 1..Len(group.references) :
                      group.references[r] #
                          mapped_results[k].paper_name \o <<32, 45, 32>>
                              \o mapped_results[k].question_number

\* the run returned groups for Mapped Questions one of which has the fallback
\* only
C15_Witness ==
    /\ canon_pc = "returned"
    /\ canonical_output # <<>>
    /\ Cardinality(FallbackOnly) >= 1
    /\ Len(mapped_results) = MaxCanonicalQuestions

\* distance of the two questions of a topic of exactly two questions
TwoQuestionDistance(i) ==
    Distance(dist, topic_questions[i].questions[1].text,
                   topic_questions[i].questions[2].text)

----------------------------------------------------------------------------
(* Properties of a run with no selected module (Spec) *)

\* C18: when a run starts with an empty module list a fatal error is raised
\* before the first call of the oracle's encode, so at no point of such a run
\* has encode been called
C18_NoEncodeWithoutModules ==
    selected_modules = <<>> => encode_calls = 0

----------------------------------------------------------------------------
(* Properties of the server process (SpecJobs) *)

\* C19: a run either completes or raises leaving no partial output: when a
\* stage of a run has raised, no result file of that run has been written and
\* the result of its job stays unset
C19_NoPartialOutputOnFailure ==
    \A j \in JobIds :
        jobs[j].status = "error" =>
            /\ written[j] = {}
            /\ jobs[j].result = NoResult

\* C20: over any interleaving of EmbeddingEngine constructions, on different
\* threads as well, the embedding model is loaded at most once in the process
\* and every EmbeddingEngine holds the same model instance
C20_ModelLoadedOnce ==
    /\ model_loads <= 1
    /\ \A j, k \in JobIds :
           \A a \in 1..Len(engines[j]), b \in 1..Len(engines[k]) :
               engines[j][a] = engines[k][b]

----------------------------------------------------------------------------
(* Properties of the clustering of a topic (SpecCanonical) *)

\* average distance of the members of clusters c and e of the topic of position i
ClusterLinkage(i, c, e) ==
    Linkage(dist_matrix(dist, topic_questions[i].questions),
            Range(topic_clusters[i].clusters[c]), Range(topic_clusters[i].clusters[e]))

\* C21: clusters are merged while the smallest average inter-member distance
\* is <= 0.55, a pair at exactly 0.55 included, so in the partition returned for
\* a topic no two clusters have an average inter-member distance <= 0.55
C21_MergedUpToThreshold ==
    \A i \in 1..Len(topic_clusters) :
        topic_clusters[i].clustered =>
            \A c, e \in 1..Len(topic_clusters[i].clusters) :
                c # e => ~FracLE(ClusterLinkage(i, c, e), <<DISTANCE_THRESHOLD, 1>>)

----------------------------------------------------------------------------
(* The medoid of a cluster: lines 102-115 of compute_canonical_questions
   called for one cluster (SpecMedoid) *)

MaxMedoidPoints == 3

\* distances of two different texts: 0.10, 0.85 and 0.90
MedoidDistValues == {10, 85, 90}

\* the question entries of a topic (lines 80-84)
TopicEntries(n) ==
    [k \in 1..n |-> [paper_name |-> CanonicalQuestion(k).paper_name,
                     question_number |-> CanonicalQuestion(k).question_number,
                     text |-> CanonicalQuestion(k).text]]

\* clusters as group_by_label lists them: two indices or more, ascending
ClusterLists(n) == {SortedIndices(S) : S \in {T \in SUBSET (1..n) : Cardinality(T) >= 2}}

InitMedoid ==
    /\ MapperIdle /\ CanonicalIdle /\ JobsIdle
    /\ \E n \in 2..MaxMedoidPoints :
           arg \in [op : {"canonical_group"},
                    entries : {TopicEntries(n)},
                    cluster_indices : ClusterLists(n),
                    d : [TextPairs(n) -> MedoidDistValues]]
    /\ ret = NoReturn

\* lines 102-115 for the cluster
CanonicalGroupCall ==
    /\ arg # <<>>
    /\ arg.op = "canonical_group"
    /\ ret = NoReturn
    /\ ret' = [returned |-> TRUE,
               value |-> canonical_group(arg.entries, arg.cluster_indices,
                                         dist_matrix(arg.d, arg.entries))]
    /\ UNCHANGED arg
    /\ UNCHANGED <<mapperVars, canonicalVars, jobVars>>

NextMedoid == CanonicalGroupCall

SpecMedoid == InitMedoid /\ [][NextMedoid]_vars

\* sum of the distances of member i of the cluster of the call to its members
MemberSum(i) ==
    SumSeq([c \in 1..Len(arg.cluster_indices) |->
                Distance(arg.d, arg.entries[i].text,
                         arg.entries[arg.cluster_indices[c]].text)])

\* the members of the cluster of the call whose sum is the least
Medoids ==
    {i \in Range(arg.cluster_indices) :
        \A k \in Range(arg.cluster_indices) : MemberSum(i) <= MemberSum(k)}

\* the call is made for A, B, C = 1, 2, 3 with AB = 0.10, AC = 0.90, BC = 0.85
IsExample ==
    /\ arg.d = (<<1, 2>> :> 10) @@ (<<1, 3>> :> 90) @@ (<<2, 3>> :> 85)
    /\ arg.cluster_indices = <<1, 2, 3>>

\* canonical_question is the text of a member of least sum, the first of them
\* in the order of the topic's questions
MedoidRule ==
    ret.returned =>
        \E i \in Medoids :
            /\ ret.value.canonical_question = arg.entries[i].text
            /\ \A k \in Medoids : i <= k

----------------------------------------------------------------------------
(* The groups of a topic: lines 97-118 of compute_canonical_questions called
   for the clusters of one topic (SpecGroups) *)

MaxGroupQuestions == 5

\* the label arrays of the partitions of n questions, a cluster being labelled
\* by its smallest index
LabelArrays(n) ==
    {l \in [1..n -> 1..n] : \A i \in 1..n : l[i] <= i /\ l[l[i]] = l[i]}

InitGroups ==
    /\ MapperIdle /\ CanonicalIdle /\ JobsIdle
    /\ \E n \in 2..MaxGroupQuestions :
           arg \in [op : {"canonical_groups"},
                    entries : {TopicEntries(n)},
                    clusters : {group_by_label(l) : l \in LabelArrays(n)},
                    d : {[p \in TextPairs(n) |-> DISTANCE_THRESHOLD - 1]}]
    /\ ret = NoReturn

\* lines 97-118 for the clusters of a topic
CanonicalGroupsCall ==
    /\ arg # <<>>
    /\ arg.op = "canonical_groups"
    /\ ret = NoReturn
    /\ ret' = [returned |-> TRUE,
               value |-> canonical_groups(arg.entries, arg.clusters,
                                          dist_matrix(arg.d, arg.entries))]
    /\ UNCHANGED arg
    /\ UNCHANGED <<mapperVars, canonicalVars, jobVars>>

NextGroups == CanonicalGroupsCall

SpecGroups == InitGroups /\ [][NextGroups]_vars

\* position in the clusters of the call of the cluster that group g was made
\* of: the one whose members have the references of the group
DiscoveryIndex(g) ==
    CHOOSE c \in 1..Len(arg.clusters) :
        IsRearrangement(ret.value[g].references,
                        [k \in 1..Len(arg.clusters[c]) |->
                            format_reference(arg.entries[arg.clusters[c][k]])])

\* C23: the canonical groups of a topic are in non-increasing order of
\* occurrences, and groups of equal occurrences are in the order in which their
\* clusters were discovered
C23_GroupsByOccurrencesStable ==
    ret.returned =>
        \A g, h \in 1..Len(ret.value) :
            g < h =>
                /\ ret.value[g].occurrences >= ret.value[h].occurrences
                /\ ret.value[g].occurrences = ret.value[h].occurrences
                       => DiscoveryIndex(g) < DiscoveryIndex(h)

\* the groups of a cluster of two found before a cluster of three were
\* returned, the group of three first
C23_Witness ==
    /\ ret.returned
    /\ Len(ret.value) = 2
    /\ Len(arg.clusters[1]) = 2
    /\ Len(arg.clusters[2]) = 3
    /\ ret.value[1].occurrences = 3

----------------------------------------------------------------------------
(* text_utils.py: expand_acronyms called on a text (SpecExpand) *)

MaxExpandChars == 5

\* the characters of the texts, as code points: " ", ",", "I", "a", "i"
SPACE == <<32>>
ExpandAlphabet == {32, 44, 73, 97, 105}

\* str.split(): the maximal runs of non-whitespace characters, in order
RECURSIVE Split(_)
Split(s) ==
    IF s = <<>> THEN <<>>
    ELSE IF Head(s) = 32 THEN Split(Tail(s))
    ELSE LET rest == Split(Tail(s))
         IN  IF Len(s) > 1 /\ s[2] # 32
             THEN <<(<<Head(s)>> \o Head(rest))>> \o Tail(rest)
             ELSE <<(<<Head(s)>>)>> \o rest

\* " ".join(words)
RECURSIVE Join(_)
Join(words) ==
    IF words = <<>> THEN <<>>
    ELSE IF Len(words) = 1 THEN Head(words)
    ELSE Head(words) \o SPACE \o Join(Tail(words))

\* \w of the regular expressions: letters, digits and the underscore
IsWordChar(c) ==
    \/ c \in 48..57
    \/ c \in 65..90
    \/ c = 95
    \/ c \in 97..122

\* str.upper() on the characters of the model
Upper(s) == [k \in 1..Len(s) |-> IF s[k] \in 97..122 THEN s[k] - 32 ELSE s[k]]

\* line 81: re.sub(r"[^\w]", "", word).upper()
clean_word(word) == Upper(SelectSeq(word, IsWordChar))

\* the acronym maps of the calls: none, and "AI" for the topic "A I"
AcronymDicts == { <<>>, << [key |-> <<65, 73>>, full_form |-> <<65, 32, 73>>] >> }

IsKey(acronym_dict, w) == \E k \in 1..Len(acronym_dict) : acronym_dict[k].key = w

Lookup(acronym_dict, w) ==
    acronym_dict[CHOOSE k \in 1..Len(acronym_dict) : acronym_dict[k].key = w].full_form

\* the expansion takes the place of the word
expanded_word_replaced(word, acronym_dict) ==
    IF IsKey(acronym_dict, clean_word(word))
    THEN <<40>> \o Lookup(acronym_dict, clean_word(word)) \o <<41>>
    ELSE word

\* lines 81-87: what is appended to expanded_words for a word
expanded_word(word, acronym_dict) ==
    IF IsKey(acronym_dict, clean_word(word))
    THEN word \o SPACE \o <<40>> \o Lookup(acronym_dict, clean_word(word)) \o <<41>>
    ELSE word

\* expand_acronyms, lines 75-89
expand_acronyms(text, acronym_dict) ==
    LET words == Split(text)
    IN  Join([k \in 1..Len(words) |-> expanded_word(words[k], acronym_dict)])

\* the texts of at most n characters
Texts(alphabet, n) == UNION {[1..k -> alphabet] : k \in 0..n}

InitExpand ==
    /\ MapperIdle /\ CanonicalIdle /\ JobsIdle
    /\ arg \in [op : {"expand_acronyms"},
                text : Texts(ExpandAlphabet, MaxExpandChars),
                acronym_dict : AcronymDicts]
    /\ ret = NoReturn

ExpandAcronymsCall ==
    /\ arg # <<>>
    /\ arg.op = "expand_acronyms"
    /\ ret = NoReturn
    /\ ret' = [returned |-> TRUE, value |-> expand_acronyms(arg.text, arg.acronym_dict)]
    /\ UNCHANGED arg
    /\ UNCHANGED <<mapperVars, canonicalVars, jobVars>>

NextExpand == ExpandAcronymsCall

SpecExpand == InitExpand /\ [][NextExpand]_vars

\* the tokens the claim expects for the tokens of a text: each token, followed
\* by the tokens of "(expansion)" when its stripped, uppercased form is a key
RECURSIVE ExpectedTokens(_, _)
ExpectedTokens(tokens, acronym_dict) ==
    IF tokens = <<>> THEN <<>>
    ELSE LET w == Upper(SelectSeq(Head(tokens), IsWordChar))
         IN  <<Head(tokens)>>
             \o (IF IsKey(acronym_dict, w)
                 THEN Split(<<40>> \o Lookup(acronym_dict, w) \o <<41>>)
                 ELSE <<>>)
             \o ExpectedTokens(Tail(tokens), acronym_dict)

\* C24: expand_acronyms keeps every whitespace token of the text in its order
\* and replaces none: a token whose punctuation-stripped, uppercased form is a
\* key is followed by its expansion in parentheses, any other token is left as
\* it is with nothing added
C24_TokensKeptExpansionAppended ==
    ret.returned =>
        Split(ret.value) = ExpectedTokens(Split(arg.text), arg.acronym_dict)

\* a text with the token "ai," and another token was expanded with the map
\* that has the key "AI"
C24_Witness ==
    /\ ret.returned
    /\ arg.acronym_dict # <<>>
    /\ \E k \in 1..Len(Split(arg.text)) : Split(arg.text)[k] = <<97, 105, 44>>
    /\ Len(Split(arg.text)) = 2
    /\ Len(Split(ret.value)) = 4

----------------------------------------------------------------------------
(* text_utils.py: extract_acronyms_from_topics called on a topic (SpecAcronyms) *)

MaxTopicWords == 3

\* the words of the topics: "Ab", "Cd", "of" and "(xy)"
TopicWords == { <<65, 98>>, <<67, 100>>, <<111, 102>>, <<40, 120, 121, 41>> }

\* the topic phrases of at most n words
TopicPhrases(n) == {Join(ws) : ws \in UNION {[1..k -> TopicWords] : k \in 1..n}}

\* str.strip()
RECURSIVE Strip(_)
Strip(s) ==
    IF s = <<>> THEN s
    ELSE IF Head(s) = 32 THEN Strip(Tail(s))
    ELSE IF s[Len(s)] = 32 THEN Strip(SubSeq(s, 1, Len(s) - 1))
    ELSE s

\* re.search(r"\(([^)]+)\)", topic): the leftmost "(" that is followed by one
\* character or more other than ")" and then ")"; <<i, j>> are the positions of
\* the two parentheses, <<>> when there is no match
paren_match(topic) ==
    LET closes(i) == {j \in (i + 1)..Len(topic) : topic[j] = 41}
        opens == {i \in 1..Len(topic) :
                     /\ topic[i] = 40
                     /\ closes(i) # {}
                     /\ SetMin(closes(i)) >= i + 2}
    IN  IF opens = {} THEN <<>> ELSE <<SetMin(opens), SetMin(closes(SetMin(opens)))>>

\* acronym_dict[key] = value on a dict kept as the sequence of its items
dict_set(d, key, value) ==
    IF \E k \in 1..Len(d) : d[k].key = key
    THEN [k \in 1..Len(d) |-> IF d[k].key = key THEN [key |-> key, full_form |-> value]
                              ELSE d[k]]
    ELSE Append(d, [key |-> key, full_form |-> value])

\* lines 50-54: the acronym written in parentheses
with_explicit_acronym(d, topic) ==
    LET m == paren_match(topic)
        acronym == Upper(Strip(SubSeq(topic, m[1] + 1, m[2] - 1)))
    IN  IF m # <<>> /\ Len(acronym) >= 2 /\ Len(acronym) <= 6
        THEN dict_set(d, acronym, topic)
        ELSE d

IsAlpha(w) == w # <<>> /\ \A k \in 1..Len(w) : w[k] \in 65..90 \/ w[k] \in 97..122

\* line 60: w[0].isupper() and w.isalpha()
is_capital_word(w) == w[1] \in 65..90 /\ IsAlpha(w)

\* lines 57-66: the acronym made of the capitalized words
with_generated_acronym(d, topic) ==
    LET words == Split(topic)
        capital_words == SelectSeq(words, is_capital_word)
        generated == Upper([k \in 1..Len(capital_words) |-> capital_words[k][1]])
    IN  IF Len(capital_words) >= 2 /\ Len(generated) >= 2 /\ Len(generated) <= 6
        THEN dict_set(d, generated, topic)
        ELSE d

\* extract_acronyms_from_topics for the topics of the modules, in order
RECURSIVE extract_acronyms_from_topics(_, _)
extract_acronyms_from_topics(d, topics) ==
    IF topics = <<>> THEN d
    ELSE extract_acronyms_from_topics(
             with_generated_acronym(with_explicit_acronym(d, Head(topics)), Head(topics)),
             Tail(topics))

InitAcronyms ==
    /\ MapperIdle /\ CanonicalIdle /\ JobsIdle
    /\ arg \in [op : {"extract_acronyms_from_topics"},
                topics : {<<t>> : t \in TopicPhrases(MaxTopicWords)}]
    /\ ret = NoReturn

ExtractAcronymsCall ==
    /\ arg # <<>>
    /\ arg.op = "extract_acronyms_from_topics"
    /\ ret = NoReturn
    /\ ret' = [returned |-> TRUE, value |-> extract_acronyms_from_topics(<<>>, arg.topics)]
    /\ UNCHANGED arg
    /\ UNCHANGED <<mapperVars, canonicalVars, jobVars>>

NextAcronyms == ExtractAcronymsCall

SpecAcronyms == InitAcronyms /\ [][NextAcronyms]_vars

\* the initialisms of the runs of two or more consecutive capitalized
\* alphabetic words of a topic
RunInitialisms(topic) ==
    LET words == Split(topic)
    IN  {Upper([k \in 1..(b - a + 1) |-> words[a + k - 1][1]]) :
            <<a, b>> \in {p \in (1..Len(words)) \X (1..Len(words)) :
                            /\ p[1] < p[2]
                            /\ \A k \in p[1]..p[2] : is_capital_word(words[k])}}

\* the key written in parentheses in a topic of the model
ExplicitKey == <<88, 89>>

\* C25: an acronym is auto-derived only from a run of at least 2 consecutive
\* capitalized alphabetic words of a topic phrase and only with 2 to 6
\* characters: capitalized words separated by a word that is not capitalized or
\* not alphabetic form no initialism together
C25_InitialismOfConsecutiveWords ==
    ret.returned =>
        \A k \in 1..Len(ret.value) :
            ret.value[k].key # ExplicitKey =>
                /\ Len(ret.value[k].key) >= 2
                /\ Len(ret.value[k].key) <= 6
                /\ ret.value[k].key \in RunInitialisms(ret.value[k].full_form)

----------------------------------------------------------------------------
(* The server polled for the status of a job (SpecPoll) *)

MaxServerJobs == 1

RunAnalysisServer == run_analysis(MaxServerJobs)

\* GET /job-status/{job_id}, main.py 266-271, with get_job of job_manager 26-27:
\* the job as it is when the request is handled, or 404 for an unknown id
JobStatus(job_id) ==
    /\ polled' = IF job_id \in JobIds
                 THEN [polled |-> TRUE, job_id |-> job_id, found |-> TRUE,
                       status |-> jobs[job_id].status, logs |-> jobs[job_id].logs,
                       result |-> jobs[job_id].result]
                 ELSE [polled |-> TRUE, job_id |-> job_id, found |-> FALSE]
    /\ UNCHANGED <<jobs, thread_pc, written, engines, model_instance, model_loads,
                   CURRENT_SYLLABUS_PATH, CURRENT_COURSE_CODE, started_with, stale, cleared>>
    /\ UNCHANGED <<mapperVars, canonicalVars, callVars>>

\* a step of the background thread of job j
ThreadStep(j) ==
    \/ Prepare(j)
    \/ GetModelCheck(j)
    \/ GetModelLoad(j)
    \/ GetModelReturn(j)
    \/ Mapping(j)
    \/ Stage(j)
    \/ CompleteStatus(j)
    \/ CompleteResult(j)

InitPoll == InitJobs

NextPoll ==
    \/ RunAnalysisServer
    \/ \E j \in JobIds : ThreadStep(j)
    \/ \E job_id \in 1..MaxServerJobs : JobStatus(job_id)

SpecPoll == InitPoll /\ [][NextPoll]_vars

\* C26: a job seen with status "completed" through get_job has its result set,
\* and a job seen with status "running" or "error" has result None
C26_CompletedSeenWithResult ==
    (polled.polled /\ polled.found) =>
        /\ polled.status = "completed" => polled.result # NoResult
        /\ polled.status \in {"running", "error"} => polled.result = NoResult

----------------------------------------------------------------------------
(* The life of a job (SpecPollFair) *)

\* the background thread of job j, once started, keeps running: every stage
\* returns or raises an Exception, and the thread is scheduled
ThreadOf(j) == j \in JobIds /\ ThreadStep(j)

Fairness == \A j \in 1..MaxServerJobs : WF_vars(ThreadOf(j))

SpecPollFair == SpecPoll /\ Fairness

Terminal == {"completed", "error"}

LastLog(j) == jobs[j].logs[Len(jobs[j].logs)]

Finished(j) == j \in JobIds /\ jobs[j].status \in Terminal

\* a job is created with status "running"
StartsRunning ==
    \A j \in 1..MaxServerJobs :
        (j \notin JobIds /\ j \in 1..Len(jobs')) => jobs'[j].status = "running"

\* the status of a finished job does not change
StaysTerminal ==
    \A j \in JobIds :
        jobs[j].status \in Terminal => jobs'[j].status = jobs[j].status

\* a thread that ends without having completed its job has raised: the status
\* becomes "error" and the message is the last of the logs
RaiseLeadsToError ==
    \A j \in JobIds :
        (thread_pc[j] \notin {"complete_result", "done"} /\ thread_pc'[j] = "done") =>
            /\ jobs'[j].status = "error"
            /\ Len(jobs'[j].logs) > Len(jobs[j].logs)
            /\ SubSeq(jobs'[j].logs, 1, Len(jobs[j].logs)) = jobs[j].logs
            /\ jobs'[j].logs[Len(jobs'[j].logs)] = "error"

\* C27: a job created by /run-analysis starts in status "running"; provided
\* every stage returns or raises an Exception it eventually is "completed" or
\* "error"; once it is, its status never changes; and an exception in a stage
\* leads to "error" with the message appended to the logs of the job
C27_JobLifecycle ==
    /\ [][StartsRunning]_vars
    /\ \A j \in 1..MaxServerJobs : (j \in JobIds) ~> Finished(j)
    /\ [][StaysTerminal]_vars
    /\ [][RaiseLeadsToError]_vars

\* a job has failed in a stage after earlier stages wrote their files, the
\* message is last in its logs, and a later poll reports the error
C27_Witness ==
    \E j \in JobIds :
        /\ jobs[j].status = "error"
        /\ thread_pc[j] = "done"
        /\ written[j] # {}
        /\ LastLog(j) = "error"
        /\ polled.polled /\ polled.found /\ polled.status = "error"

----------------------------------------------------------------------------
(* Requests handled while a job runs (SpecServer) *)

MaxUploads == 2

\* the thread of job j is still inside the try block of lines 215-249
Processing(j) == thread_pc[j] \notin {"complete_status", "complete_result", "done"}

\* POST /upload-syllabus, lines 58-107: an upload that parses and validates
\* replaces both globals (lines 106-107); a rejected one returns before them
UploadSyllabus ==
    \E upload \in 1..MaxUploads, valid \in BOOLEAN :
        /\ CURRENT_SYLLABUS_PATH' = IF valid THEN upload ELSE CURRENT_SYLLABUS_PATH
        /\ CURRENT_COURSE_CODE' = IF valid THEN upload ELSE CURRENT_COURSE_CODE
        /\ UNCHANGED <<jobs, thread_pc, written, engines, model_instance, model_loads,
                       polled, started_with, stale, cleared>>
        /\ UNCHANGED <<mapperVars, canonicalVars, callVars>>

\* POST /cleanup, lines 277-307: the six directories are emptied (lines 296-300)
\* under every thread that is still processing, and both globals are reset
Cleanup ==
    /\ cleared' = [j \in JobIds |-> cleared[j] \/ Processing(j)]
    /\ CURRENT_SYLLABUS_PATH' = 0
    /\ CURRENT_COURSE_CODE' = 0
    /\ UNCHANGED <<jobs, thread_pc, written, engines, model_instance, model_loads,
                   polled, started_with, stale>>
    /\ UNCHANGED <<mapperVars, canonicalVars, callVars>>

InitServer == InitJobs

NextServer ==
    \/ RunAnalysisServer
    \/ \E j \in JobIds : ThreadStep(j)
    \/ UploadSyllabus
    \/ Cleanup

SpecServer == InitServer /\ [][NextServer]_vars

\* C28: a job reads the syllabus path and the course code that were current
\* when /run-analysis was called for it, and no /cleanup empties the
\* directories while its thread is processing them
C28_JobKeepsItsInputs ==
    \A j \in JobIds : ~stale[j] /\ ~cleared[j]

----------------------------------------------------------------------------
(* normalize_text (SpecNormalize) *)

MaxTextChars == 7

NEWLINE == 10

\* a line break, a space, the digit "1" and the letter "A"
NormalizeAlphabet == {NEWLINE, 32, 49, 65}

\* text.splitlines(), line 20: the pieces between line breaks, without a last
\* empty piece when the text ends with a line break
RECURSIVE splitlines(_)
splitlines(text) ==
    IF text = <<>> THEN <<>>
    ELSE IF \A k \in 1..Len(text) : text[k] # NEWLINE THEN <<text>>
    ELSE LET i == CHOOSE k \in 1..Len(text) :
                      text[k] = NEWLINE /\ \A m \in 1..(k - 1) : text[m] # NEWLINE
         IN  <<SubSeq(text, 1, i - 1)>> \o splitlines(SubSeq(text, i + 1, Len(text)))

\* re.fullmatch(r"[0-9\s\.\-]+", stripped), line 25
is_numeric_line(stripped) ==
    /\ stripped # <<>>
    /\ \A k \in 1..Len(stripped) :
           stripped[k] \in (48..57) \cup {32, NEWLINE, 45, 46}

\* the loop of lines 23-30: a stripped line of digits, dots, dashes and spaces
\* with four tokens or more is dropped, every other stripped line is kept
RECURSIVE cleaned_lines(_)
cleaned_lines(lines) ==
    IF lines = <<>> THEN <<>>
    ELSE LET stripped == Strip(Head(lines))
         IN  IF is_numeric_line(stripped) /\ Len(Split(stripped)) >= 4
             THEN cleaned_lines(Tail(lines))
             ELSE <<stripped>> \o cleaned_lines(Tail(lines))

\* re.sub(r"\s+", " ", cleaned_text), line 33
RECURSIVE collapse_whitespace(_)
collapse_whitespace(s) ==
    IF s = <<>> THEN <<>>
    ELSE IF Head(s) \in {32, NEWLINE}
         THEN IF Len(s) > 1 /\ s[2] \in {32, NEWLINE}
              THEN collapse_whitespace(Tail(s))
              ELSE SPACE \o collapse_whitespace(Tail(s))
    ELSE <<Head(s)>> \o collapse_whitespace(Tail(s))

\* str.lower()
Lower(s) == [k \in 1..Len(s) |-> IF s[k] \in 65..90 THEN s[k] + 32 ELSE s[k]]

\* normalize_text, lines 14-35
normalize_text(text) ==
    IF text = <<>> THEN <<>>
    ELSE Strip(Lower(collapse_whitespace(Join(cleaned_lines(splitlines(text))))))

InitNormalize ==
    /\ MapperIdle /\ CanonicalIdle /\ JobsIdle
    /\ arg \in [op : {"normalize_text"}, text : Texts(NormalizeAlphabet, MaxTextChars)]
    /\ ret = NoReturn

NormalizeTextCall ==
    /\ arg # <<>>
    /\ arg.op = "normalize_text"
    /\ ret = NoReturn
    /\ ret' = [returned |-> TRUE, value |-> normalize_text(arg.text)]
    /\ UNCHANGED arg
    /\ UNCHANGED <<mapperVars, canonicalVars, jobVars>>

NextNormalize == NormalizeTextCall

SpecNormalize == InitNormalize /\ [][NextNormalize]_vars

\* C29: normalize_text is idempotent: normalizing a text it returned gives
\* the same text back
C29_NormalizeIdempotent ==
    (arg # <<>> /\ arg.op = "normalize_text" /\ ret.returned) =>
        normalize_text(ret.value) = ret.value

----------------------------------------------------------------------------
(* A topic name that two modules share (SpecSharedTopic) *)

MaxSharedQuestions == 3

\* distances of two different texts: 0.50, below the threshold, and 0.56, above
SharedDistValues == {50, DISTANCE_THRESHOLD + 1}

\* what map_questions_to_topics selected for a question when modules 1 and 2
\* both list a topic of one name: the two entries of topic_metadata score
\* alike, so either the topic of module 1 alone (module 2 not allowed for the
\* question) or both (topic_mapper lines 202-224)
SharedTopicLists ==
    LET t1 == [module_id |-> 1, topic |-> ModuleTopicNames[1][1], confidence |-> 8000]
        t2 == [module_id |-> 2, topic |-> ModuleTopicNames[1][1], confidence |-> 8000]
    IN  { <<t1>>, <<t1, t2>> }

SharedTopicResultLists ==
    UNION { {[k \in 1..n |-> MappedQuestion(k, sel[k])] :
                sel \in [1..n -> SharedTopicLists]}
            : n \in 0..MaxSharedQuestions }

\* a run of compute_canonical_questions on such Mapped Questions
InitSharedTopic ==
    /\ MapperIdle
    /\ JobsIdle
    /\ CallIdle
    /\ \E mapped \in SharedTopicResultLists :
           /\ mapped_results = mapped
           /\ dist \in [TextPairs(Len(mapped)) -> SharedDistValues]
    /\ canon_pc = "start"
    /\ topic_questions = <<>>
    /\ topic_clusters = <<>>
    /\ canonical_output = <<>>
    /\ canonical_file = NoFile

NextSharedTopic == GroupByTopic \/ CanonicalTopic \/ SaveCanonical

SpecSharedTopic == InitSharedTopic /\ [][NextSharedTopic]_vars

\* C30: the questions having pairwise distinct (paper_name, question_number),
\* every group counts a question once: its references are pairwise distinct
\* and occurrences is the number of distinct questions of the group
C30_EachQuestionCountedOnce ==
    \A g \in OutputGroups :
        /\ \A i, j \in 1..Len(g.references) :
               i # j => g.references[i] # g.references[j]
        /\ g.occurrences = Cardinality(Range(g.references))

====
